---- MODULE Spec2Model ----
(***************************************************************************)
(* A model of the data-view crate: the Endian codec (src/src/endian.rs),   *)
(* the random-access View over [u8] (src/src/view.rs) and the DataView     *)
(* cursor (src/src/dataview.rs).                                           *)
(*                                                                         *)
(* usize is the machine word of a 16-bit target (endian.rs:42), so that    *)
(* offsets near usize::MAX and the overflow of `offset + len` are part of  *)
(* the state space.  Whether an overflowing usize addition panics or wraps *)
(* depends on the build profile (overflow checks): overflow_checks.  The   *)
(* byte order is the build's feature selection: order, and the target's    *)
(* own endianness: native.                                                 *)
(***************************************************************************)
EXTENDS Integers, Sequences, FiniteSets, TLC

VARIABLES
    order,            \* build feature: "LE" (default), "BE", "NE"
    native,           \* the target's endianness: "LE" or "BE"
    overflow_checks,  \* build profile: TRUE = overflowing `+` panics, FALSE = wraps
    data,             \* DataView.data: the byte buffer
    offset,           \* DataView.offset: pub usize
    status,           \* "running" | "panicked" (the process has aborted)
    last,             \* the last call: its arguments, its result, the state before it
    consumed,         \* bytes consumed/produced by successful calls since new; -1 once
                      \* the offset has been assigned directly
    calls,            \* number of calls made so far
    codec             \* the codec experiment of SpecCodec

vars == <<order, native, overflow_checks, data, offset, status, last, consumed,
          calls, codec>>

--------------------------------------------------------------------------
(* Bounds of the model *)

MaxLen == 4
MaxCalls == 3

(* Program constants *)

USIZE_BITS == 16
USIZE_MAX == 2^USIZE_BITS - 1
Byte == 0..255

--------------------------------------------------------------------------
(* endian.rs: the Endian implementations generated by impl_endian_for.     *)
(* A value of an integer type is an integer of its range.                  *)

Types == {"u8", "i8", "u16", "i16", "i32"}

SIZE(T) ==
    CASE T = "u8" -> 1
      [] T = "i8" -> 1
      [] T = "u16" -> 2
      [] T = "i16" -> 2
      [] T = "i32" -> 4

Signed(T) == T \in {"i8", "i16", "i32"}

(* The range of T, written so that no intermediate value leaves 32 bits.   *)
MinValue(T) == IF Signed(T) THEN (-(2^(8 * SIZE(T) - 2))) * 2 ELSE 0
MaxValue(T) ==
    IF Signed(T) THEN (2^(8 * SIZE(T) - 2) - 1) * 2 + 1 ELSE 2^(8 * SIZE(T)) - 1

(* core's to_le_bytes / to_be_bytes / to_ne_bytes: the two's complement    *)
(* representation, byte i of which is floor(v / 256^i) mod 256.            *)
to_le_bytes(v, size) == [i \in 1..size |-> (v \div 256^(i - 1)) % 256]
to_be_bytes(v, size) == [i \in 1..size |-> (v \div 256^(size - i)) % 256]
to_ne_bytes(v, size) ==
    IF native = "LE" THEN to_le_bytes(v, size) ELSE to_be_bytes(v, size)

(* core's from_le_bytes / from_be_bytes / from_ne_bytes: the top byte      *)
(* carries the sign of a signed type.                                      *)
TopByte(T, b) == IF Signed(T) /\ b >= 128 THEN b - 256 ELSE b

RECURSIVE LowSum(_, _)
LowSum(bytes, n) ==
    IF n = 0 THEN 0 ELSE bytes[n] * 256^(n - 1) + LowSum(bytes, n - 1)

from_le_bytes(T, bytes) ==
    LET n == Len(bytes)
    IN  TopByte(T, bytes[n]) * 256^(n - 1) + LowSum(bytes, n - 1)

Reverse(s) == [i \in 1..Len(s) |-> s[Len(s) + 1 - i]]

from_be_bytes(T, bytes) == from_le_bytes(T, Reverse(bytes))
from_ne_bytes(T, bytes) ==
    IF native = "LE" THEN from_le_bytes(T, bytes) ELSE from_be_bytes(T, bytes)

(* Endian::write_at_*: the bytes copy_nonoverlapping stores at dst.        *)
(* (write_at_le_reversed: write_at_le storing the to_be_bytes.)            *)
write_at_le_reversed(T, v) == to_be_bytes(v, SIZE(T))
write_at_le(T, v) == to_le_bytes(v, SIZE(T))
write_at_be(T, v) == to_be_bytes(v, SIZE(T))
write_at_ne(T, v) == to_ne_bytes(v, SIZE(T))

from_bytes_le(T, bytes) == from_le_bytes(T, bytes)
from_bytes_be(T, bytes) == from_be_bytes(T, bytes)
from_bytes_ne(T, bytes) == from_ne_bytes(T, bytes)

(* Endian::to_bytes_*: called by <[u8] as View>::write_at, declared by no  *)
(* file of src/; the encode of the codec in the order named.               *)
to_bytes_le(T, v) == to_le_bytes(v, SIZE(T))
to_bytes_be(T, v) == to_be_bytes(v, SIZE(T))
to_bytes_ne(T, v) == to_ne_bytes(v, SIZE(T))

(* num_from and num_write_at: the order the build's features select.      *)
(* (num_from_mismatched: the default build decoding big-endian.)           *)
num_from_mismatched(T, bytes) ==
    CASE order = "LE" -> from_bytes_be(T, bytes)
      [] order = "BE" -> from_bytes_be(T, bytes)
      [] order = "NE" -> from_bytes_ne(T, bytes)

num_from(T, bytes) ==
    CASE order = "LE" -> from_bytes_le(T, bytes)
      [] order = "BE" -> from_bytes_be(T, bytes)
      [] order = "NE" -> from_bytes_ne(T, bytes)

num_write_at(T, num) ==
    CASE order = "LE" -> write_at_le(T, num)
      [] order = "BE" -> write_at_be(T, num)
      [] order = "NE" -> write_at_ne(T, num)

--------------------------------------------------------------------------
(* Machine arithmetic and memory *)

(* usize `a + b`: panics under overflow checks, wraps otherwise.           *)
usize_add(a, b) ==
    IF a + b > USIZE_MAX
    THEN [panic |-> overflow_checks, val |-> (a + b) % (USIZE_MAX + 1)]
    ELSE [panic |-> FALSE, val |-> a + b]

Min(a, b) == IF a <= b THEN a ELSE b

(* <[u8]>::get(start..end): None (here FALSE) unless start <= end <= len.  *)
InRange(d, start, end) == start <= end /\ end <= Len(d)

(* The bytes d[start..end] of an in-range range.                           *)
Slice(d, start, end) == SubSeq(d, start + 1, end)

(* copy_nonoverlapping(src, dst + at, Len(src)) within the buffer.         *)
Store(d, at, src) ==
    [i \in 1..Len(d) |->
        IF at < i /\ i <= at + Len(src) THEN src[i - at] ELSE d[i]]

(* The same copy when dst + at lies outside the buffer: undefined          *)
(* behaviour.  The outcomes modelled: the stores land at the addresses     *)
(* wrapped around the address space (those inside the buffer change it),   *)
(* or no byte of the buffer changes.                                       *)
StoreWrapped(d, at, src) ==
    [i \in 1..Len(d) |->
        IF \E k \in 1..Len(src) : (at + k - 1) % (USIZE_MAX + 1) = i - 1
        THEN src[CHOOSE k \in 1..Len(src) : (at + k - 1) % (USIZE_MAX + 1) = i - 1]
        ELSE d[i]]

StoreOutOfBounds(d, at, src) == {d, StoreWrapped(d, at, src)}

--------------------------------------------------------------------------
(* Results of a call: outcome is "Some" / "None" (an Option), "Ok" (a      *)
(* unit return) or "Panic"; data and offset are the state it leaves;       *)
(* val / bytes the value returned; ub whether memory outside the buffer    *)
(* was accessed.                                                           *)

Result(outcome, d, o, val, bytes, ub) ==
    [outcome |-> outcome, data |-> d, offset |-> o, val |-> val,
     bytes |-> bytes, ub |-> ub]

Panicked(d, o) == Result("Panic", d, o, 0, <<>>, FALSE)
NoneAt(d, o) == Result("None", d, o, 0, <<>>, FALSE)

--------------------------------------------------------------------------
(* dataview.rs: the cursor's methods, as functions of the buffer d and the *)
(* offset o.  Each gives the set of results the build can produce.         *)

(* (remaining_slice_skips_one: the slice taken from offset + 1.)           *)
remaining_slice_skips_one(d, o) ==
    {Result("Ok", d, o, 0, Slice(d, Min(o + 1, Len(d)), Len(d)), FALSE)}

remaining_slice(d, o) ==
    {Result("Ok", d, o, 0, Slice(d, Min(o, Len(d)), Len(d)), FALSE)}

(* (read_slice_eager: the offset assigned before the range is checked.)   *)
read_slice_eager(d, o, len) ==
    LET total_len == usize_add(o, len)
    IN  IF total_len.panic THEN {Panicked(d, o)}
        ELSE IF ~InRange(d, o, total_len.val) THEN {NoneAt(d, total_len.val)}
        ELSE {Result("Some", d, total_len.val, 0, Slice(d, o, total_len.val), FALSE)}

read_slice(d, o, len) ==
    LET total_len == usize_add(o, len)
    IN  IF total_len.panic THEN {Panicked(d, o)}
        ELSE IF ~InRange(d, o, total_len.val) THEN {NoneAt(d, o)}
        ELSE {Result("Some", d, total_len.val, 0, Slice(d, o, total_len.val), FALSE)}

read(d, o, E) ==
    {IF r.outcome = "Some"
     THEN Result("Some", r.data, r.offset, num_from(E, r.bytes), <<>>, FALSE)
     ELSE r : r \in read_slice(d, o, SIZE(E))}

read_buf(d, o, N) == read_slice(d, o, N)

(* (write_weak_assert: asserting offset <= len, not total_len <= len.)     *)
write_weak_assert(d, o, E, num) ==
    LET total_len == usize_add(o, SIZE(E))
    IN  IF total_len.panic THEN {Panicked(d, o)}
        ELSE IF ~(o <= Len(d)) THEN {Panicked(d, o)}
        ELSE IF o + SIZE(E) <= Len(d)
        THEN {Result("Ok", Store(d, o, num_write_at(E, num)), total_len.val,
                     0, <<>>, FALSE)}
        ELSE {Result("Ok", d2, total_len.val, 0, <<>>, TRUE) :
                 d2 \in StoreOutOfBounds(d, o, num_write_at(E, num))}

write(d, o, E, num) ==
    LET total_len == usize_add(o, SIZE(E))
    IN  IF total_len.panic THEN {Panicked(d, o)}
        ELSE IF ~(total_len.val <= Len(d)) THEN {Panicked(d, o)}
        ELSE IF o + SIZE(E) <= Len(d)
        THEN {Result("Ok", Store(d, o, num_write_at(E, num)), total_len.val,
                     0, <<>>, FALSE)}
        ELSE {Result("Ok", d2, total_len.val, 0, <<>>, TRUE) :
                 d2 \in StoreOutOfBounds(d, o, num_write_at(E, num))}

(* (write_slice_assigns_count: offset = count, not offset + count.)        *)
write_slice_assigns_count(d, o, src) ==
    LET count == Len(src)
        total_len == usize_add(o, count)
    IN  IF total_len.panic THEN {Panicked(d, o)}
        ELSE IF ~(total_len.val <= Len(d)) THEN {Panicked(d, o)}
        ELSE IF o + count <= Len(d)
        THEN {Result("Ok", Store(d, o, src), count, 0, <<>>, FALSE)}
        ELSE {Result("Ok", d2, count, 0, <<>>, TRUE) :
                 d2 \in StoreOutOfBounds(d, o, src)}

write_slice(d, o, src) ==
    LET count == Len(src)
        total_len == usize_add(o, count)
    IN  IF total_len.panic THEN {Panicked(d, o)}
        ELSE IF ~(total_len.val <= Len(d)) THEN {Panicked(d, o)}
        ELSE IF o + count <= Len(d)
        THEN {Result("Ok", Store(d, o, src), total_len.val, 0, <<>>, FALSE)}
        ELSE {Result("Ok", d2, total_len.val, 0, <<>>, TRUE) :
                 d2 \in StoreOutOfBounds(d, o, src)}

--------------------------------------------------------------------------
(* view.rs: View for [u8], applied to the buffer d; o is the cursor's      *)
(* offset, which these never read or change.                               *)

DecodeAt(E, bytes) ==
    CASE order = "LE" -> from_bytes_le(E, bytes)
      [] order = "BE" -> from_bytes_be(E, bytes)
      [] order = "NE" -> from_bytes_ne(E, bytes)

EncodeAt(E, value) ==
    CASE order = "LE" -> to_bytes_le(E, value)
      [] order = "BE" -> to_bytes_be(E, value)
      [] order = "NE" -> to_bytes_ne(E, value)

(* (read_at_inclusive: a range ending one byte past the end accepted.)     *)
read_at_inclusive(d, o, at, E) ==
    LET end == usize_add(at, SIZE(E))
    IN  IF end.panic THEN {Panicked(d, o)}
        ELSE IF ~(at <= end.val /\ end.val <= Len(d) + 1) THEN {NoneAt(d, o)}
        ELSE {Result("Some", d, o,
                     DecodeAt(E, [i \in 1..SIZE(E) |->
                                    IF at + i <= Len(d) THEN d[at + i] ELSE 0]),
                     <<>>, end.val > Len(d))}

read_at(d, o, at, E) ==
    LET end == usize_add(at, SIZE(E))
    IN  IF end.panic THEN {Panicked(d, o)}
        ELSE IF ~InRange(d, at, end.val) THEN {NoneAt(d, o)}
        ELSE {Result("Some", d, o, DecodeAt(E, Slice(d, at, end.val)), <<>>, FALSE)}

(* (write_at_shifted: the bytes stored one place early.)                   *)
write_at_shifted(d, o, at, E, value) ==
    LET end == usize_add(at, SIZE(E))
    IN  IF end.panic THEN {Panicked(d, o)}
        ELSE IF ~InRange(d, at, end.val) THEN {Panicked(d, o)}
        ELSE {Result("Ok", Store(d, IF at > 0 THEN at - 1 ELSE at, EncodeAt(E, value)),
                     o, 0, <<>>, FALSE)}

write_at(d, o, at, E, value) ==
    LET end == usize_add(at, SIZE(E))
    IN  IF end.panic THEN {Panicked(d, o)}
        ELSE IF ~InRange(d, at, end.val) THEN {Panicked(d, o)}
        ELSE {Result("Ok", Store(d, at, EncodeAt(E, value)), o, 0, <<>>, FALSE)}

--------------------------------------------------------------------------
(* Inputs of the calls *)

Zeros(n) == [i \in 1..n |-> 0]
Iota(n) == [i \in 1..n |-> i]
Buffers == {Iota(n) : n \in 0..MaxLen} \cup {Zeros(MaxLen)}

Offsets == {0, MaxLen, MaxLen + 1, USIZE_MAX - 1, USIZE_MAX}
AtOffsets == {0, MaxLen - 2, MaxLen - 1, MaxLen, USIZE_MAX}
ReadLens == {0, 2, USIZE_MAX}
BufLens == {2}
ReadTypes == {"u8", "u16", "i32"}
WriteArgs == {<<"u8", 1>>, <<"u16", 42>>, <<"u16", 300>>, <<"i32", -2>>}
AtArgs == {<<"u8", 12>>, <<"u16", 42>>}
Slices == {<<1, 2>>, <<3, 4>>}

Orders == {"LE", "BE", "NE"}
Builds == {b \in [order : Orders, native : {"LE", "BE"}, overflow_checks : BOOLEAN] :
              b.order # "NE" => b.native = "LE"}

NoCall ==
    [op |-> "new", ty |-> "", n |-> 0, at |-> 0, arg |-> 0, src |-> <<>>,
     outcome |-> "Ok", val |-> 0, bytes |-> <<>>, ub |-> FALSE,
     pre_data |-> <<>>, pre_offset |-> 0]

NoCodec == [op |-> "none", ty |-> "", val |-> 0, bytes |-> <<>>, back |-> 0,
            back_bytes |-> <<>>]

(* The state a call leaves: the result r of calling op with the arguments  *)
(* given, n the number of bytes it asks for.  A panic ends the process.    *)
Call(op, ty, n, at, arg, src, r) ==
    /\ data' = r.data
    /\ offset' = r.offset
    /\ status' = IF r.outcome = "Panic" THEN "panicked" ELSE "running"
    /\ last' = [op |-> op, ty |-> ty, n |-> n, at |-> at, arg |-> arg, src |-> src,
                outcome |-> r.outcome, val |-> r.val, bytes |-> r.bytes,
                ub |-> r.ub, pre_data |-> data, pre_offset |-> offset]
    /\ calls' = calls + 1
    /\ UNCHANGED <<order, native, overflow_checks, codec>>

Succeeded(r) == r.outcome \in {"Some", "Ok"}

(* consumed after a cursor call asking for n bytes.                        *)
Consume(r, n) ==
    consumed' = IF consumed >= 0 /\ Succeeded(r) THEN consumed + n ELSE consumed

Running == status = "running" /\ calls < MaxCalls

(* DataView::new(data) in one of the builds.                               *)
Init ==
    /\ \E b \in Builds :
          /\ order = b.order
          /\ native = b.native
          /\ overflow_checks = b.overflow_checks
    /\ data \in Buffers
    /\ offset = 0
    /\ status = "running"
    /\ last = NoCall
    /\ consumed = 0
    /\ calls = 0
    /\ codec = NoCodec

(* `view.offset = o`: offset is a pub field.                               *)
SetOffset ==
    /\ Running
    /\ \E o \in Offsets :
          /\ offset' = o
          /\ last' = [NoCall EXCEPT !.op = "set_offset", !.at = o,
                                    !.pre_data = data, !.pre_offset = offset]
    /\ consumed' = -1
    /\ calls' = calls + 1
    /\ UNCHANGED <<order, native, overflow_checks, data, status, codec>>

RemainingSlice ==
    /\ Running
    /\ \E r \in remaining_slice(data, offset) :
          /\ Call("remaining_slice", "", 0, 0, 0, <<>>, r)
          /\ UNCHANGED consumed

Read ==
    /\ Running
    /\ \E E \in ReadTypes : \E r \in read(data, offset, E) :
          /\ Call("read", E, SIZE(E), 0, 0, <<>>, r)
          /\ Consume(r, SIZE(E))

ReadSlice ==
    /\ Running
    /\ \E len \in ReadLens : \E r \in read_slice(data, offset, len) :
          /\ Call("read_slice", "", len, 0, 0, <<>>, r)
          /\ Consume(r, len)

ReadBuf ==
    /\ Running
    /\ \E N \in BufLens : \E r \in read_buf(data, offset, N) :
          /\ Call("read_buf", "", N, 0, 0, <<>>, r)
          /\ Consume(r, N)

Write ==
    /\ Running
    /\ \E a \in WriteArgs : \E r \in write(data, offset, a[1], a[2]) :
          /\ Call("write", a[1], SIZE(a[1]), 0, a[2], <<>>, r)
          /\ Consume(r, SIZE(a[1]))

WriteSlice ==
    /\ Running
    /\ \E src \in Slices : \E r \in write_slice(data, offset, src) :
          /\ Call("write_slice", "", Len(src), 0, 0, src, r)
          /\ Consume(r, Len(src))

ReadAt ==
    /\ Running
    /\ \E at \in AtOffsets, E \in ReadTypes : \E r \in read_at(data, offset, at, E) :
          /\ Call("read_at", E, SIZE(E), at, 0, <<>>, r)
          /\ UNCHANGED consumed

WriteAt ==
    /\ Running
    /\ \E at \in AtOffsets, a \in AtArgs :
          \E r \in write_at(data, offset, at, a[1], a[2]) :
             /\ Call("write_at", a[1], SIZE(a[1]), at, a[2], <<>>, r)
             /\ UNCHANGED consumed

Next ==
    \/ SetOffset
    \/ RemainingSlice
    \/ Read
    \/ ReadSlice
    \/ ReadBuf
    \/ Write
    \/ WriteSlice
    \/ ReadAt
    \/ WriteAt

Spec == Init /\ [][Next]_vars

--------------------------------------------------------------------------
(* The codec on its own: one encode/decode experiment per behaviour, in    *)
(* every build.  8- and 16-bit types are taken over their whole range.     *)

I32Samples == {-2147483647 - 1, -16909061, -2, -1, 0, 1, 16909060, 2147483647}
ByteSamples == {0, 1, 127, 128, 255}

CodecValues(T) ==
    IF SIZE(T) <= 2 THEN MinValue(T)..MaxValue(T) ELSE I32Samples

CodecBytes(T) ==
    CASE SIZE(T) = 1 -> {<<a>> : a \in Byte}
      [] SIZE(T) = 2 -> {<<a, b>> : a \in Byte, b \in Byte}
      [] OTHER -> {<<a, b, c, e>> : a \in ByteSamples, b \in ByteSamples,
                                    c \in ByteSamples, e \in ByteSamples}

CursorValues(T) ==
    IF SIZE(T) = 1 THEN MinValue(T)..MaxValue(T)
    ELSE IF SIZE(T) = 2 THEN {MinValue(T), -2, -1, 0, 1, 42, 300, 4660, MaxValue(T)}
                                \cap (MinValue(T)..MaxValue(T))
    ELSE I32Samples

InitCodec ==
    /\ \E b \in Builds :
          /\ order = b.order
          /\ native = b.native
          /\ overflow_checks = b.overflow_checks
    /\ data = <<>>
    /\ offset = 0
    /\ status = "running"
    /\ last = NoCall
    /\ consumed = 0
    /\ calls = 0
    /\ codec = NoCodec

Fresh == codec.op = "none"

CodecStep(c) ==
    /\ codec' = c
    /\ UNCHANGED <<order, native, overflow_checks, data, offset, status, last,
                   consumed, calls>>

(* num_from of what num_write_at stores.                                   *)
EncodeDecode ==
    /\ Fresh
    /\ \E T \in Types : \E v \in CodecValues(T) :
        LET bytes == num_write_at(T, v)
        IN  CodecStep([op |-> "encode_decode", ty |-> T, val |-> v, bytes |-> bytes,
                       back |-> num_from(T, bytes), back_bytes |-> <<>>])

(* num_write_at of what num_from reads.                                    *)
DecodeEncode ==
    /\ Fresh
    /\ \E T \in Types : \E bytes \in CodecBytes(T) :
        LET v == num_from(T, bytes)
        IN  CodecStep([op |-> "decode_encode", ty |-> T, val |-> v, bytes |-> bytes,
                       back |-> 0, back_bytes |-> num_write_at(T, v)])

(* view.write::<T>(v); view.offset = o; view.read::<T>() on a zeroed       *)
(* buffer one byte longer than T.                                          *)
WriteRead ==
    /\ Fresh
    /\ \E T \in Types : \E v \in CursorValues(T) : \E o \in {0, 1} :
        \E w \in write(Zeros(SIZE(T) + 1), o, T, v) :
            \E r \in read(w.data, o, T) :
                CodecStep([op |-> "write_read", ty |-> T, val |-> v,
                           bytes |-> Slice(w.data, o, o + SIZE(T)),
                           back |-> r.val, back_bytes |-> <<>>])

NextCodec ==
    \/ EncodeDecode
    \/ DecodeEncode
    \/ WriteRead

SpecCodec == InitCodec /\ [][NextCodec]_vars

--------------------------------------------------------------------------
(* Vocabulary of the properties: the last call, seen from the state it     *)
(* left.                                                                   *)

ReadOps == {"read", "read_slice", "read_buf"}
WriteOps == {"write", "write_slice"}
CursorOps == ReadOps \cup WriteOps
AtOps == {"read_at", "write_at"}

(* Where the last call starts, and the end of its range as a number.       *)
Start == IF last.op \in AtOps THEN last.at ELSE last.pre_offset
End == Start + last.n

OutOfRange == End > Len(last.pre_data)
Overflows == End > USIZE_MAX
Returned == last.outcome \in {"Some", "Ok"}
Failed == last.outcome \in {"None", "Panic"}
Untouched == data = last.pre_data /\ offset = last.pre_offset

(* d with the bytes [at, at + Len(bytes)) replaced by bytes.               *)
Replaced(d, pre, at, bytes) ==
    /\ Len(d) = Len(pre)
    /\ \A i \in 1..Len(pre) :
          d[i] = IF at < i /\ i <= at + Len(bytes) THEN bytes[i - at] ELSE pre[i]

--------------------------------------------------------------------------
C2_NoPartialConsumption ==
    (last.op \in CursorOps /\ Failed) => (Untouched /\ OutOfRange)

(* A read_slice past the end has failed after the offset had advanced.     *)
C2_Witness ==
    /\ last.op = "read_slice"
    /\ last.outcome = "None"
    /\ last.pre_offset = 2
    /\ last.n = USIZE_MAX
    /\ calls = 2

(* C3: as long as the offset was only moved by the calls since new, it is  *)
(* the sum of the bytes they consumed or produced; each successful call    *)
(* advances it by its own count, and a read returns the bytes between the  *)
(* old and the new offset.                                                 *)
C3_OffsetMonotonicity ==
    consumed >= 0 =>
        /\ offset = consumed
        /\ (last.op \in CursorOps /\ Returned) =>
              /\ offset = last.pre_offset + last.n
              /\ last.op \in {"read_slice", "read_buf"} =>
                    last.bytes = Slice(last.pre_data, last.pre_offset, offset)
              /\ last.op = "read" =>
                    last.val = num_from(last.ty,
                                        Slice(last.pre_data, last.pre_offset, offset))

(* The second read_buf::<2> of [1, 2, 3, 4] has returned [3, 4].           *)
C3_Witness ==
    /\ consumed = 4
    /\ last.op = "read_buf"
    /\ last.pre_offset = 2
    /\ last.bytes = <<3, 4>>

(* C4 as stated: a write that returns has replaced the bytes               *)
(* [o, o + width) by the encoding, left the others, and set the offset to  *)
(* o + width.                                                              *)
C4_WriteEffect ==
    (last.op = "write" /\ Returned) =>
        /\ End <= Len(last.pre_data)
        /\ Replaced(data, last.pre_data, last.pre_offset,
                    num_write_at(last.ty, last.arg))
        /\ offset = last.pre_offset + SIZE(last.ty)

(* C5: read_at succeeds exactly when offset + width <= length, then        *)
(* returns the decoding of those bytes, and never changes the buffer.      *)
C5_ReadAtBounds ==
    last.op = "read_at" =>
        /\ last.outcome = "Some" <=> last.at + SIZE(last.ty) <= Len(last.pre_data)
        /\ last.outcome = "Some" =>
              last.val = num_from(last.ty,
                                  Slice(last.pre_data, last.at, last.at + SIZE(last.ty)))
        /\ last.at = Len(last.pre_data) => last.outcome # "Some"
        /\ (Len(last.pre_data) = 4 /\ last.ty = "u16" /\ last.at = 3) =>
              last.outcome = "None"
        /\ (Len(last.pre_data) = 4 /\ last.ty = "u16" /\ last.at = 2) =>
              last.outcome = "Some"
        /\ Untouched

(* read_at::<u16>(2) of a buffer of length 4 has succeeded.                *)
C5_Witness ==
    /\ last.op = "read_at"
    /\ Len(last.pre_data) = 4
    /\ last.ty = "u16"
    /\ last.at = 2
    /\ last.outcome = "Some"
    /\ last.val # 0

(* C6: an in-range write_at changes exactly the bytes [o, o + width) to    *)
(* the encoding of the value; the length, the other bytes and the cursor's *)
(* offset stay.                                                            *)
C6_WriteAtFrame ==
    (last.op = "write_at" /\ last.at + SIZE(last.ty) <= Len(last.pre_data)) =>
        /\ last.outcome = "Ok"
        /\ Replaced(data, last.pre_data, last.at, num_write_at(last.ty, last.arg))
        /\ offset = last.pre_offset

(* A write_at in the middle of the buffer, with bytes before and after.    *)
C6_Witness ==
    /\ last.op = "write_at"
    /\ last.outcome = "Ok"
    /\ last.at > 0
    /\ last.at + SIZE(last.ty) < Len(last.pre_data)
    /\ data # last.pre_data

(* C7: in every build and for every type, decoding the encoding of a value *)
(* gives the value, encoding the decoding of a byte sequence gives the     *)
(* sequence, and a value written through the cursor is the value read back *)
(* from the same offset.                                                   *)
C7_RoundTrip ==
    /\ codec.op = "encode_decode" =>
          (Len(codec.bytes) = SIZE(codec.ty) /\ codec.back = codec.val)
    /\ codec.op = "decode_encode" =>
          (codec.val \in MinValue(codec.ty)..MaxValue(codec.ty)
           /\ codec.back_bytes = codec.bytes)
    /\ codec.op = "write_read" => codec.back = codec.val

(* A negative 16-bit value has made the round trip in big-endian order.    *)
C7_Witness ==
    /\ codec.op = "encode_decode"
    /\ order = "BE"
    /\ codec.ty = "i16"
    /\ codec.val = -2
    /\ codec.bytes = <<255, 254>>
    /\ codec.back = -2

(* C8: the encoding starts with the least significant byte in              *)
(* little-endian order (the default) and with the most significant byte in *)
(* big-endian order; 0x1234 is [0x34, 0x12] and [0x12, 0x34].              *)
C8_ByteOrder ==
    codec.op = "encode_decode" =>
        LET size == SIZE(codec.ty)
            lsb == codec.val % 256
            msb == (codec.val \div 256^(size - 1)) % 256
        IN  /\ order = "LE" => (codec.bytes[1] = lsb /\ codec.bytes[size] = msb)
            /\ order = "BE" => (codec.bytes[1] = msb /\ codec.bytes[size] = lsb)
            /\ (codec.ty = "u16" /\ codec.val = 4660 /\ order = "LE") =>
                  codec.bytes = <<52, 18>>
            /\ (codec.ty = "u16" /\ codec.val = 4660 /\ order = "BE") =>
                  codec.bytes = <<18, 52>>

(* 0x1234 has been encoded in the default order.                           *)
C8_Witness ==
    /\ codec.op = "encode_decode"
    /\ order = "LE"
    /\ codec.ty = "u16"
    /\ codec.val = 4660
    /\ codec.bytes = <<52, 18>>

(* C9: remaining_slice returns the bytes from min(offset, length) to the   *)
(* end, for every offset, and changes nothing.                             *)
C9_RemainingSlice ==
    last.op = "remaining_slice" =>
        LET from == Min(last.pre_offset, Len(last.pre_data))
        IN  /\ last.outcome = "Ok"
            /\ ~last.ub
            /\ Len(last.bytes) = Len(last.pre_data) - from
            /\ \A i \in 1..Len(last.bytes) : last.bytes[i] = last.pre_data[from + i]
            /\ last.pre_offset >= Len(last.pre_data) => last.bytes = <<>>
            /\ Untouched

(* remaining_slice with the offset set beyond the buffer.                  *)
C9_Witness ==
    /\ last.op = "remaining_slice"
    /\ last.pre_offset = USIZE_MAX
    /\ Len(last.pre_data) = MaxLen
    /\ last.bytes = <<>>

(* C10 as stated: a checked cursor call returns only if offset + count is  *)
(* at most the length; it accesses no byte outside the buffer and leaves   *)
(* no wrapped-around offset.                                               *)
C10_NoSilentWrap ==
    last.op \in CursorOps =>
        /\ Returned => End <= Len(last.pre_data)
        /\ ~last.ub
        /\ offset >= last.pre_offset

====
